---- MODULE Spec2Model ----
(***************************************************************************)
(* A model of andmed.py, the electricity-consumption dashboard script.     *)
(*                                                                         *)
(* The script is a sequence of independent stages, each modelled by its    *)
(* own specification over the shared variables:                            *)
(*   SpecDownload  download_data_if_needed, over repeated script runs      *)
(*   SpecLoad      load_single_dataset on one file                         *)
(*   SpecFinder    find_100_day_consecutive_window on one date collection  *)
(*   SpecHeatmap   task 1: groupby / pivot_table / dropna / window search  *)
(*   SpecCompare   task 2: common dates, the two widgets, the comparison   *)
(*                                                                         *)
(* Calendar dates are day ordinals (integers); date + timedelta(days=j)    *)
(* is d + j.  Python's None is the value None below.                       *)
(***************************************************************************)
EXTENDS Integers, Sequences, FiniteSets, TLC

VARIABLES
    \* find_100_day_consecutive_window
    dates_in_df,            \* the argument: a sequence of dates
    window_100_days,        \* the value returned
    finder_pc,              \* "call" | "returned"
    \* download_data_if_needed, over the script's runs
    hashes,                 \* the argument: the list of dataset ids
    files,                  \* the ids h whose file {h}.csv exists in the directory
    dl_i,                   \* the loop's position in hashes (1-based)
    download_messages,      \* the message list of the current call
    dl_pc,                  \* "loop" | "done" | "raised"
    run,                    \* the number of the current script run
    gets,                   \* history: the GETs issued, in order, as <<run, id>>
    last_step,              \* history: what the last loop iteration did, to which id, where
    \* load_single_dataset
    file_rows,              \* the data rows of the file
    load_result,            \* the DataFrame returned, and whether st.error was shown
    load_pc,                \* "call" | "returned"
    \* task 1: the heatmap of the selected dataset
    df_single,              \* all_datasets[selected_hash_for_heatmap]
    pivot_df_cleaned,       \* the pivot table after dropna()
    heat_window,            \* window_100_days of line 142
    task1_output,           \* what task 1 shows
    heat_pc,                \* "start" | "rendered"
    \* task 2: the comparison on a common day
    all_datasets,           \* the loaded datasets: keys in order, and each key's df
    list_of_date_sets,
    common_dates,
    selected_common_day,
    selected_hashes_for_comparison,
    comparison_data_list,
    task2_output,           \* what task 2 shows
    cmp_pc                  \* "start" | "widgets" | "rendered" | "stopped"

finderVars == <<dates_in_df, window_100_days, finder_pc>>
dlVars == <<hashes, files, dl_i, download_messages, dl_pc, run, gets, last_step>>
loadVars == <<file_rows, load_result, load_pc>>
heatVars == <<df_single, pivot_df_cleaned, heat_window, task1_output, heat_pc>>
cmpVars == <<all_datasets, list_of_date_sets, common_dates, selected_common_day,
             selected_hashes_for_comparison, comparison_data_list, task2_output, cmp_pc>>

vars == <<finderVars, dlVars, loadVars, heatVars, cmpVars>>

notFinder == <<dlVars, loadVars, heatVars, cmpVars>>
notDl == <<finderVars, loadVars, heatVars, cmpVars>>
notLoad == <<finderVars, dlVars, heatVars, cmpVars>>
notHeat == <<finderVars, dlVars, loadVars, cmpVars>>
notCmp == <<finderVars, dlVars, loadVars, heatVars>>

None == [kind |-> "None", dates |-> <<>>]

Range(s) == {s[k] : k \in DOMAIN s}

(***************************************************************************)
(* find_100_day_consecutive_window                                         *)
(***************************************************************************)

\* The window length the function searches for.
WindowDays == 100

\* Model bound: the dates offered to the finder are 0 .. WindowDays + Slack.
Slack == 3

MaxDay == WindowDays + Slack

DayList == [k \in 1..(MaxDay + 1) |-> k - 1]

\* sorted(list(set(dates_in_df))): the distinct members in ascending order.
SortedUnique(seq) ==
    LET members == Range(seq)
    IN  SelectSeq(DayList, LAMBDA d : d \in members)

\* sorted(list(dates_in_df)): the set() forgotten, duplicates kept.
SortedKeepingDuplicates(seq) == SortSeq(seq, LAMBDA a, b : a < b)

\* unique_sorted_dates of line 92.
unique_sorted_dates(seq) == SortedUnique(seq)

\* The inner loop with range(1, 99): the last follower is never looked at.
is_consecutive_short(u, i) ==
    \A j \in 1..(WindowDays - 2) :
        ~((i + j > Len(u)) \/ (u[i + j] /= u[i] + j))

\* The inner loop, lines 99-104, for the 1-based start index i
\* (Python's i + j >= len is i + j > Len here).
is_consecutive(u, i) ==
    \A j \in 1..(WindowDays - 1) :
        ~((i + j > Len(u)) \/ (u[i + j] /= u[i] + j))

\* The outer loop, lines 96-107, from start index i on.
RECURSIVE FindFrom(_, _)
FindFrom(u, i) ==
    IF i > Len(u) - (WindowDays - 1)
    THEN None
    ELSE IF is_consecutive(u, i)
         THEN [kind |-> "list",
               dates |-> [k \in 1..WindowDays |-> u[i] + (k - 1)]]
         ELSE FindFrom(u, i + 1)

find_100_day_consecutive_window(seq) ==
    LET u == unique_sorted_dates(seq)
    IN  IF Len(u) < WindowDays THEN None ELSE FindFrom(u, 1)

\* The collections the finder is called with: the days 0..hi with up to two
\* days removed, in ascending order, with or without one day repeated in
\* front; and the empty and the shortest collections.
FinderDateSets(last) ==
    {(0..hi) \ {a, b} : hi \in (last - Slack)..last, a \in 0..last, b \in 0..last}

FinderInputs(last) ==
    LET asc(S) == SelectSeq(DayList, LAMBDA d : d \in S)
    IN  {asc(S) : S \in FinderDateSets(last)}
        \cup {<<50>> \o asc(S) : S \in {T \in FinderDateSets(last) : 50 \in T}}
        \cup {<<>>} \cup {asc(0..k) : k \in 0..Slack}

FinderIdle ==
    /\ dates_in_df = <<>>
    /\ window_100_days = None
    /\ finder_pc = "idle"

FinderInit ==
    /\ dates_in_df \in FinderInputs(MaxDay)
    /\ window_100_days = None
    /\ finder_pc = "call"

CallFinder ==
    /\ finder_pc = "call"
    /\ window_100_days' = find_100_day_consecutive_window(dates_in_df)
    /\ finder_pc' = "returned"
    /\ UNCHANGED <<dates_in_df, notFinder>>


(***************************************************************************)
(* download_data_if_needed                                                 *)
(***************************************************************************)

\* Model bounds: the ids are 1..MaxIds, the list holds up to MaxIds of them
\* (an id may repeat), and the script is run up to MaxRuns times.
MaxIds == 2
MaxRuns == 3

Ids == 1..MaxIds

RECURSIVE SeqsUpTo(_, _)
SeqsUpTo(S, n) ==
    IF n = 0 THEN {<<>>}
    ELSE LET shorter == SeqsUpTo(S, n - 1)
         IN  shorter \cup {Append(q, x) : q \in shorter, x \in S}

\* What requests.get / raise_for_status raise: all are RequestException.
RequestFailures == {"timeout", "http_status", "connection"}

DlIdle ==
    /\ hashes = <<>>
    /\ files = {}
    /\ dl_i = 0
    /\ download_messages = <<>>
    /\ dl_pc = "idle"
    /\ run = 0
    /\ gets = <<>>
    /\ last_step = [kind |-> "none", id |-> 0, at |-> <<0, 0>>]

\* The first run enters the loop; any of the files may be there already.
DlInit ==
    /\ hashes \in SeqsUpTo(Ids, MaxIds) \ {<<>>}
    /\ files \in SUBSET Ids
    /\ dl_i = 1
    /\ download_messages = <<>>
    /\ dl_pc = "loop"
    /\ run = 1
    /\ gets = <<>>
    /\ last_step = [kind |-> "none", id |-> 0, at |-> <<0, 0>>]

InLoop == dl_pc = "loop" /\ dl_i <= Len(hashes)

\* Lines 42-44: the file exists, no request is made.
DlExists ==
    /\ InLoop
    /\ hashes[dl_i] \in files
    /\ download_messages' = Append(download_messages, [kind |-> "Olemas", id |-> hashes[dl_i]])
    /\ dl_i' = dl_i + 1
    /\ last_step' = [kind |-> "exists", id |-> hashes[dl_i], at |-> <<run, dl_i>>]
    /\ UNCHANGED <<hashes, files, dl_pc, run, gets, notDl>>

\* Lines 33-39: the GET succeeds with a 2xx status and the bytes are written.
DlSuccess ==
    /\ InLoop
    /\ hashes[dl_i] \notin files
    /\ gets' = Append(gets, <<run, hashes[dl_i]>>)
    /\ files' = files \cup {hashes[dl_i]}
    /\ download_messages' = Append(download_messages, [kind |-> "Laaditud", id |-> hashes[dl_i]])
    /\ dl_i' = dl_i + 1
    /\ last_step' = [kind |-> "ok", id |-> hashes[dl_i], at |-> <<run, dl_i>>]
    /\ UNCHANGED <<hashes, dl_pc, run, notDl>>

\* Lines 36-37, 40-41: the GET times out, cannot connect, or raise_for_status
\* raises on a non-2xx status; the RequestException is caught.
DlRequestException ==
    /\ InLoop
    /\ hashes[dl_i] \notin files
    /\ \E failure \in RequestFailures :
          last_step' = [kind |-> failure, id |-> hashes[dl_i], at |-> <<run, dl_i>>]
    /\ gets' = Append(gets, <<run, hashes[dl_i]>>)
    /\ download_messages' = Append(download_messages, [kind |-> "Viga", id |-> hashes[dl_i]])
    /\ dl_i' = dl_i + 1
    /\ UNCHANGED <<hashes, files, dl_pc, run, notDl>>

\* Line 38: write_bytes raises OSError, which is no RequestException: it leaves
\* the function.  write_bytes opens the file for writing and then writes, so
\* the file is absent (the open failed) or there, empty or partial (the write
\* failed).
DlWriteError ==
    /\ InLoop
    /\ hashes[dl_i] \notin files
    /\ gets' = Append(gets, <<run, hashes[dl_i]>>)
    /\ \E created \in BOOLEAN :
          files' = IF created THEN files \cup {hashes[dl_i]} ELSE files
    /\ dl_pc' = "raised"
    /\ last_step' = [kind |-> "io_error", id |-> hashes[dl_i], at |-> <<run, dl_i>>]
    /\ UNCHANGED <<hashes, dl_i, download_messages, run, notDl>>

\* Lines 46-50: the loop is over, the log is shown, the function returns.
DlReturn ==
    /\ dl_pc = "loop"
    /\ dl_i > Len(hashes)
    /\ dl_pc' = "done"
    /\ UNCHANGED <<hashes, files, dl_i, download_messages, run, gets, last_step, notDl>>

\* The script runs again (a widget changed, or the page was reloaded after an
\* error): line 52 calls the function afresh with the directory as it is.
DlRerun ==
    /\ dl_pc \in {"done", "raised"}
    /\ run < MaxRuns
    /\ run' = run + 1
    /\ dl_i' = 1
    /\ download_messages' = <<>>
    /\ dl_pc' = "loop"
    /\ last_step' = [kind |-> "none", id |-> 0, at |-> <<0, 0>>]
    /\ UNCHANGED <<hashes, files, gets, notDl>>

(***************************************************************************)
(* load_single_dataset                                                     *)
(*                                                                         *)
(* A timestamp string is <<"ts", date, hour>> when it is a well-formed     *)
(* day-first timestamp of that date and hour, and <<"bad">> otherwise.  A  *)
(* consumption cell is the sequence of its characters, or EmptyCell, which *)
(* read_csv reads as NaN.  A float is its value in hundredths, or NaN.     *)
(***************************************************************************)

\* Model bound: the file holds up to MaxRows data rows.
MaxRows == 3

NaT == [date |-> -1, hour |-> -1]
NaN == [nan |-> TRUE, hundredths |-> 0]
Number(n) == [nan |-> FALSE, hundredths |-> n]
EmptyCell == <<>>
Digits == {"0", "1", "2", "3", "4", "5", "6", "7", "8", "9"}

DigitValue(c) ==
    CASE c = "0" -> 0 [] c = "1" -> 1 [] c = "2" -> 2 [] c = "3" -> 3 [] c = "4" -> 4
      [] c = "5" -> 5 [] c = "6" -> 6 [] c = "7" -> 7 [] c = "8" -> 8 [] c = "9" -> 9

\* pd.to_datetime(..., dayfirst=True, errors='coerce') on one string.
to_datetime(s) == IF s[1] = "ts" THEN [date |-> s[2], hour |-> s[3]] ELSE NaT

\* .astype(str): NaN becomes the string nan.
astype_str(cell) == IF cell = EmptyCell THEN <<"n", "a", "n">> ELSE cell

\* .str.replace(',', '.'): every comma becomes a period.
str_replace(s) == [k \in DOMAIN s |-> IF s[k] = "," THEN "." ELSE s[k]]

RECURSIVE DigitsValue(_)
DigitsValue(s) ==
    IF s = <<>> THEN 0 ELSE 10 * DigitsValue(SubSeq(s, 1, Len(s) - 1)) + DigitValue(s[Len(s)])

\* float(s) on the strings of the model: digits with at most one period and
\* at most two decimals, or nan.  [ok |-> FALSE] is ValueError.
float(s) ==
    LET dots == {k \in DOMAIN s : s[k] = "."}
        allowed == \A k \in DOMAIN s : s[k] \in Digits \cup {"."}
        dot == IF dots = {} THEN Len(s) + 1 ELSE CHOOSE k \in dots : TRUE
        whole == SubSeq(s, 1, dot - 1)
        frac == SubSeq(s, dot + 1, Len(s))
    IN  IF s = <<"n", "a", "n">> THEN [ok |-> TRUE, value |-> NaN]
        ELSE IF ~allowed \/ Cardinality(dots) > 1 \/ Len(whole) + Len(frac) = 0
                \/ Len(frac) > 2
        THEN [ok |-> FALSE, value |-> NaN]
        ELSE [ok |-> TRUE,
              value |-> Number(100 * DigitsValue(whole)
                               + (IF Len(frac) = 1 THEN 10 ELSE 1) * DigitsValue(frac))]

\* Line 61 on one cell.
consumption_of(cell) == float(str_replace(astype_str(cell)))

\* Lines 57-69.  astype(float) converts the whole column and raises on the
\* first string that is no float; the except clause then returns an empty
\* DataFrame.  Otherwise dropna drops the rows with NaT or NaN.  The columns
\* timestamp and day_name are functions of date and hour and are left out.
load_single_dataset(rows) ==
    IF \E k \in DOMAIN rows : ~consumption_of(rows[k].consumption_str).ok
    THEN [df |-> <<>>, st_error |-> TRUE]
    ELSE LET parsed == [k \in DOMAIN rows |->
                          [timestamp |-> to_datetime(rows[k].timestamp_str),
                           consumption |-> consumption_of(rows[k].consumption_str).value]]
             kept == SelectSeq(parsed, LAMBDA r : r.timestamp /= NaT /\ r.consumption /= NaN)
         IN  [df |-> [k \in DOMAIN kept |->
                        [date |-> kept[k].timestamp.date,
                         hour |-> kept[k].timestamp.hour,
                         consumption |-> kept[k].consumption]],
              st_error |-> FALSE]

TimestampStrings == {<<"ts", 1, 0>>, <<"ts", 1, 1>>, <<"bad">>}

ConsumptionCells ==
    {<<"2">>, <<"1", ",", "5">>, <<"1", ".", "5">>, <<"1", ",", "2", ",">>, <<"x">>, EmptyCell}

FileRows == [timestamp_str : TimestampStrings, consumption_str : ConsumptionCells]

LoadIdle ==
    /\ file_rows = <<>>
    /\ load_result = [df |-> <<>>, st_error |-> FALSE]
    /\ load_pc = "idle"

LoadInit ==
    /\ file_rows \in SeqsUpTo(FileRows, MaxRows)
    /\ load_result = [df |-> <<>>, st_error |-> FALSE]
    /\ load_pc = "call"

CallLoad ==
    /\ load_pc = "call"
    /\ load_result' = load_single_dataset(file_rows)
    /\ load_pc' = "returned"
    /\ UNCHANGED <<file_rows, notLoad>>


(***************************************************************************)
(* DataFrames of readings                                                  *)
(*                                                                         *)
(* A DataFrame returned by load_single_dataset is the sequence of its      *)
(* rows [date, hour, consumption]; hour is timestamp.dt.hour, 0..23.       *)
(***************************************************************************)

HoursPerDay == 24

Hours == 0..(HoursPerDay - 1)

\* The (date, hour) cells of the dates 1..n in timestamp order.
CellList(n) ==
    [k \in 1..(n * HoursPerDay) |->
        <<((k - 1) \div HoursPerDay) + 1, (k - 1) % HoursPerDay>>]

\* The DataFrame with one reading in each cell of present, in timestamp order.
FrameOf(present, n) ==
    LET cells == SelectSeq(CellList(n), LAMBDA c : c \in present)
    IN  [k \in DOMAIN cells |->
           [date |-> cells[k][1], hour |-> cells[k][2],
            consumption |-> Number(100 + cells[k][2])]]

(***************************************************************************)
(* Task 1: groupby / pivot_table / dropna / window search (lines 122-169)  *)
(***************************************************************************)

\* Model bound: the selected dataset has readings on the dates 1..MaxHeatDates.
MaxHeatDates == 2

RECURSIVE SumOver(_, _)
SumOver(df, idx) ==
    IF idx = {} THEN 0
    ELSE LET k == CHOOSE x \in idx : TRUE
         IN  df[k].consumption.hundredths + SumOver(df, idx \ {k})

\* A mean is the pair of the sum and the count; the mean of nothing is NaN.
MeanNaN == [sum |-> 0, count |-> 0]

\* Line 128: groupby(['date', 'hour'])['consumption'].mean().reset_index():
\* one row per (date, hour) that has a reading.
groupby_mean(df) ==
    LET keys == {<<df[k].date, df[k].hour>> : k \in DOMAIN df}
    IN  [key \in keys |->
           LET idx == {k \in DOMAIN df : df[k].date = key[1] /\ df[k].hour = key[2]}
           IN  [sum |-> SumOver(df, idx), count |-> Cardinality(idx)]]

\* Lines 131-135: pivot_table(index='date', columns='hour'): the rows are the
\* dates and the columns the hours that occur in the grouped frame; a cell
\* with no row of the grouped frame is NaN.
pivot_table(grouped) ==
    LET index == {key[1] : key \in DOMAIN grouped}
        columns == {key[2] : key \in DOMAIN grouped}
    IN  [index |-> index,
         columns |-> columns,
         cell |-> [key \in index \X columns |->
                      IF key \in DOMAIN grouped THEN grouped[key] ELSE MeanNaN]]

\* Line 138: dropna(): the rows holding a NaN in any column are removed.
dropna(pivot) ==
    LET kept == {d \in pivot.index : \A h \in pivot.columns : pivot.cell[<<d, h>>] /= MeanNaN}
    IN  [index |-> kept,
         columns |-> pivot.columns,
         cell |-> [key \in kept \X pivot.columns |-> pivot.cell[key]]]

EmptyPivot == [index |-> {}, columns |-> {}, cell |-> <<>>]

\* The index of a pivot table, ascending, as handed to the finder (line 142).
IndexList(pivot) == SelectSeq(DayList, LAMBDA d : d \in pivot.index)

\* The selected dataset: on each date 1..MaxHeatDates no reading, a reading in
\* every hour, or a reading in every hour but one; with or without a second
\* reading in the first hour of date 1.
HourChoices == {{}} \cup {Hours \ missing : missing \in {{}} \cup {{h} : h \in Hours}}

HeatFrames(n) ==
    {FrameOf({c \in Range(CellList(n)) : c[2] \in hours[c[1]]}, n) \o extra :
        hours \in [1..n -> HourChoices],
        extra \in {<<>>, <<[date |-> 1, hour |-> 0, consumption |-> Number(300)]>>}}
    \ {<<>>}

HeatIdle ==
    /\ df_single = <<>>
    /\ pivot_df_cleaned = EmptyPivot
    /\ heat_window = None
    /\ task1_output = "none"
    /\ heat_pc = "idle"

HeatInit ==
    /\ df_single \in HeatFrames(MaxHeatDates)
    /\ pivot_df_cleaned = EmptyPivot
    /\ heat_window = None
    /\ task1_output = "none"
    /\ heat_pc = "start"

\* Lines 122-169 for the selected dataset.
RenderHeatmap ==
    /\ heat_pc = "start"
    /\ LET cleaned == dropna(pivot_table(groupby_mean(df_single)))
           window == find_100_day_consecutive_window(IndexList(cleaned))
       IN  /\ pivot_df_cleaned' = cleaned
           /\ IF cleaned.index /= {}
              THEN /\ heat_window' = window
                   /\ task1_output' = IF window /= None THEN "chart" ELSE "warning_no_window"
              ELSE /\ heat_window' = None
                   /\ task1_output' = "warning_no_data"
    /\ heat_pc' = "rendered"
    /\ UNCHANGED <<df_single, notHeat>>

(***************************************************************************)
(* Task 2: the comparison on a common day (lines 179-248)                  *)
(***************************************************************************)

\* Model bound: the datasets are 1..MaxDatasets.
MaxDatasets == 3

\* The dates the datasets have readings on.  Two dates tell the intersection
\* of the date sets from each input set, from their union and from the empty
\* set; a dataset has one of the nine frames CmpFrames over them.
CmpDates == {1, 2}

\* The dates of df with a reading in every hour 0..23.
complete_date_set(df) ==
    {d \in {df[k].date : k \in DOMAIN df} :
        \A h \in Hours : \E k \in DOMAIN df : df[k].date = d /\ df[k].hour = h}

\* set(df['date']) of line 186.
date_set(df) == {df[k].date : k \in DOMAIN df}

\* The lambda of line 191 with | for &.
union_for_intersect(a, b) == a \cup b

\* The lambda of line 191.
intersect(a, b) == a \cap b

RECURSIVE ReduceFrom(_, _, _)
ReduceFrom(acc, sets, k) ==
    IF k > Len(sets) THEN acc ELSE ReduceFrom(intersect(acc, sets[k]), sets, k + 1)

\* functools.reduce(lambda a, b: a & b, sets) for a non-empty list.
reduce(sets) == ReduceFrom(sets[1], sets, 2)

\* sorted(list(S), reverse=True).
SortedDescending(S) ==
    LET asc == SelectSeq(DayList, LAMBDA d : d \in S)
    IN  [k \in DOMAIN asc |-> asc[Len(asc) + 1 - k]]

\* Line 218 comparing the hour column with the day.
df_day_by_hour(df, day) == SelectSeq(df, LAMBDA r : r.hour = day)

\* df_temp[df_temp['date'] == selected_common_day] of line 218.
df_day(df, day) == SelectSeq(df, LAMBDA r : r.date = day)

\* The subsequences of a list: what a multiselect can return, in option order.
RECURSIVE SubLists(_)
SubLists(list) ==
    IF list = <<>> THEN {<<>>}
    ELSE LET rest == SubLists(Tail(list))
         IN  rest \cup {<<Head(list)>> \o r : r \in rest}

\* Each dataset's file: on each date no reading, a reading in the first hour
\* only, or a reading in every hour.  A dataset with no reading at all is
\* one load_all_datasets leaves out (line 78).
DayChoices == {{}, {0}, Hours}

CmpFrames ==
    LET n == Cardinality(CmpDates)
    IN  {FrameOf({c \in Range(CellList(n)) : c[2] \in hours[c[1]]}, n) :
            hours \in [CmpDates -> DayChoices]}

\* all_datasets of line 83: the keys in the order of TARGET_HASHES.
LoadedDatasets(frames) ==
    [keys |-> SelectSeq([k \in 1..MaxDatasets |-> k], LAMBDA h : frames[h] /= <<>>),
     df |-> frames]

CmpIdle ==
    /\ all_datasets = [keys |-> <<>>, df |-> <<>>]
    /\ list_of_date_sets = <<>>
    /\ common_dates = <<>>
    /\ selected_common_day = 0
    /\ selected_hashes_for_comparison = <<>>
    /\ comparison_data_list = <<>>
    /\ task2_output = "none"
    /\ cmp_pc = "idle"

CmpInit ==
    /\ \E frames \in [1..MaxDatasets -> CmpFrames] :
          all_datasets = LoadedDatasets(frames)
    /\ list_of_date_sets = <<>>
    /\ common_dates = <<>>
    /\ selected_common_day = 0
    /\ selected_hashes_for_comparison = <<>>
    /\ comparison_data_list = <<>>
    /\ task2_output = "none"
    /\ cmp_pc = "start"

\* Lines 179-181: every loaded dataset is non-empty, so all are available.
available_datasets_for_common_day ==
    SelectSeq(all_datasets.keys, LAMBDA h : all_datasets.df[h] /= <<>>)

\* Lines 85-87: nothing was loaded; st.error and st.stop().
StopNoDatasets ==
    /\ cmp_pc = "start"
    /\ all_datasets.keys = <<>>
    /\ task2_output' = "error_no_datasets"
    /\ cmp_pc' = "stopped"
    /\ UNCHANGED <<all_datasets, list_of_date_sets, common_dates, selected_common_day,
                   selected_hashes_for_comparison, comparison_data_list, notCmp>>

\* Lines 183-184: fewer than two datasets.
WarnNeedTwoDatasets ==
    /\ cmp_pc = "start"
    /\ all_datasets.keys /= <<>>
    /\ Len(available_datasets_for_common_day) < 2
    /\ task2_output' = "warning_need_two_datasets"
    /\ cmp_pc' = "rendered"
    /\ UNCHANGED <<all_datasets, list_of_date_sets, common_dates, selected_common_day,
                   selected_hashes_for_comparison, comparison_data_list, notCmp>>

\* Lines 186-194: the date sets and their common dates, newest first; with no
\* common date the warning of line 194 ends the task.
ComputeCommonDates ==
    /\ cmp_pc = "start"
    /\ Len(available_datasets_for_common_day) >= 2
    /\ LET avail == available_datasets_for_common_day
           sets == [k \in DOMAIN avail |-> date_set(all_datasets.df[avail[k]])]
           common == SortedDescending(reduce(sets))
       IN  /\ list_of_date_sets' = sets
           /\ common_dates' = common
           /\ IF common = <<>>
              THEN task2_output' = "warning_no_common_date" /\ cmp_pc' = "rendered"
              ELSE task2_output' = "none" /\ cmp_pc' = "widgets"
    /\ UNCHANGED <<all_datasets, selected_common_day, selected_hashes_for_comparison,
                   comparison_data_list, notCmp>>

\* Lines 213-222: one frame per selected dataset that has rows on the day.
comparison_frames(selected, day) ==
    LET with_rows == SelectSeq(selected,
                        LAMBDA h : /\ h \in Range(available_datasets_for_common_day)
                                   /\ df_day(all_datasets.df[h], day) /= <<>>)
    IN  [k \in DOMAIN with_rows |->
           [dataset_id |-> with_rows[k], rows |-> df_day(all_datasets.df[with_rows[k]], day)]]

\* Lines 199-248: the user's choices in the selectbox and the multiselect,
\* and what the script shows for them.
RenderComparison ==
    /\ cmp_pc = "widgets"
    /\ \E day \in Range(common_dates) :
       \E selected \in SubLists(available_datasets_for_common_day) :
          /\ selected_common_day' = day
          /\ selected_hashes_for_comparison' = selected
          /\ IF Len(selected) >= 1
             THEN /\ comparison_data_list' = comparison_frames(selected, day)
                  /\ task2_output' = IF comparison_frames(selected, day) /= <<>>
                                     THEN "chart" ELSE "info_no_data"
             ELSE /\ comparison_data_list' = <<>>
                  /\ task2_output' = "info_select_day_and_dataset"
    /\ cmp_pc' = "rendered"
    /\ UNCHANGED <<all_datasets, list_of_date_sets, common_dates, notCmp>>

(***************************************************************************)
(* Specifications                                                          *)
(***************************************************************************)

FinderNext == CallFinder

InitFinder == FinderInit /\ DlIdle /\ LoadIdle /\ HeatIdle /\ CmpIdle

SpecFinder == InitFinder /\ [][FinderNext]_vars

DlNext ==
    \/ DlExists
    \/ DlSuccess
    \/ DlRequestException
    \/ DlWriteError
    \/ DlReturn
    \/ DlRerun

InitDownload == DlInit /\ FinderIdle /\ LoadIdle /\ HeatIdle /\ CmpIdle

SpecDownload == InitDownload /\ [][DlNext]_vars

LoadNext == CallLoad

InitLoad == LoadInit /\ FinderIdle /\ DlIdle /\ HeatIdle /\ CmpIdle

SpecLoad == InitLoad /\ [][LoadNext]_vars

InitHeatmap == HeatInit /\ FinderIdle /\ DlIdle /\ LoadIdle /\ CmpIdle

HeatNext == RenderHeatmap

SpecHeatmap == InitHeatmap /\ [][HeatNext]_vars

InitCompare == CmpInit /\ FinderIdle /\ DlIdle /\ LoadIdle /\ HeatIdle

CmpNext ==
    \/ StopNoDatasets
    \/ WarnNeedTwoDatasets
    \/ ComputeCommonDates
    \/ RenderComparison

SpecCompare == InitCompare /\ [][CmpNext]_vars

(***************************************************************************)
(* Claims                                                                  *)
(***************************************************************************)

\* ---- the finder's claims --------------------------------------------------

\* d starts a run of WindowDays consecutive members of S.
StartsRun(S, d) == d + (WindowDays - 1) \in S /\ \A k \in 0..(WindowDays - 1) : d + k \in S

HasRun(S) == \E d \in S : StartsRun(S, d)

\* C1: when the collection holds a run of 100 calendar-consecutive dates, the
\* finder returns exactly 100 dates, all members of the collection, each one
\* day after the previous, starting at the smallest date that starts such a run.
C1_FinderReturnsEarliestRun ==
    (finder_pc = "returned" /\ HasRun(Range(dates_in_df))) =>
        LET S == Range(dates_in_df)
            w == window_100_days.dates
        IN  /\ window_100_days.kind = "list"
            /\ Len(w) = 100
            /\ \A k \in 1..Len(w) : w[k] \in S
            /\ \A k \in 1..(Len(w) - 1) : w[k + 1] = w[k] + 1
            /\ StartsRun(S, w[1])
            /\ \A d \in S : StartsRun(S, d) => w[1] <= d

\* A run exists that does not start at the smallest date, a shorter run lies
\* before it and the collection repeats a date; the finder has returned it.
C1_Witness ==
    /\ finder_pc = "returned"
    /\ window_100_days.kind = "list"
    /\ window_100_days.dates[1] > 1
    /\ 0 \in Range(dates_in_df)
    /\ Len(dates_in_df) > Cardinality(Range(dates_in_df))

\* C2: with fewer than 100 distinct dates, or with no date that starts a run
\* of 100, the finder returns None (and has returned: no error was raised).
C2_FinderNotFound ==
    (finder_pc = "returned" /\ (Cardinality(Range(dates_in_df)) < 100
                                  \/ ~HasRun(Range(dates_in_df)))) =>
        window_100_days = None

\* At least 100 distinct dates whose longest run is 99 days; None was returned.
C2_Witness ==
    /\ finder_pc = "returned"
    /\ window_100_days = None
    /\ Cardinality(Range(dates_in_df)) >= 100
    /\ \E d \in Range(dates_in_df) : \A k \in 0..98 : d + k \in Range(dates_in_df)

\* ---- the download's claims ------------------------------------------------

\* C7: when the function ends, whatever each file's outcome was (success,
\* timeout, non-2xx status, I/O error while writing), the message list holds
\* exactly one entry per dataset id of the list.
C7_OneMessagePerId ==
    dl_pc \in {"done", "raised"} =>
        /\ Len(download_messages) = Len(hashes)
        /\ \A k \in DOMAIN download_messages : download_messages[k].id = hashes[k]

FailureKinds == RequestFailures \cup {"io_error"}

\* C8: a GET is issued for a dataset exactly when its file is absent at that
\* moment; after a failed attempt (timeout, non-2xx, I/O error) the file is
\* still absent; after a successful one the file exists, and no GET is issued
\* for a dataset whose file exists.
C8_GetIffAbsentAndFailureLeavesAbsent ==
    [][/\ (last_step' /= last_step /\ last_step'.kind /= "none") =>
            ((gets' /= gets) <=> (last_step'.id \notin files))
       /\ (last_step' /= last_step /\ last_step'.kind \in FailureKinds) =>
            last_step'.id \notin files'
       /\ (last_step' /= last_step /\ last_step'.kind = "ok") =>
            last_step'.id \in files'
       /\ files \subseteq files']_vars

\* ---- the loader's claims --------------------------------------------------

\* The rows in which both the timestamp and the consumption value parse.
BothParse(row) ==
    /\ to_datetime(row.timestamp_str) /= NaT
    /\ consumption_of(row.consumption_str).ok
    /\ consumption_of(row.consumption_str).value /= NaN

WellFormedRows(rows) ==
    LET good == SelectSeq(rows, BothParse)
    IN  [k \in DOMAIN good |->
           [date |-> to_datetime(good[k].timestamp_str).date,
            hour |-> to_datetime(good[k].timestamp_str).hour,
            consumption |-> consumption_of(good[k].consumption_str).value]]

\* C6: load_single_dataset returns exactly the rows in which both the
\* timestamp and the consumption value parse, each malformed row dropped on
\* its own: a malformed row never costs the file its well-formed rows.
C6_MalformedRowsDroppedIndividually ==
    load_pc = "returned" => load_result.df = WellFormedRows(file_rows)

\* ---- task 1's claims ------------------------------------------------------

\* df has at least one reading in each of the 24 hours of date d.
HasAllHours(df, d) ==
    \A h \in 0..23 : \E k \in DOMAIN df : df[k].date = d /\ df[k].hour = h

\* C3: a date of the dataset is in the index of pivot_df_cleaned exactly when
\* the dataset has at least one reading in each of the 24 hours of that date,
\* whatever hours the other dates have.
C3_EligibleIffAllHours ==
    heat_pc = "rendered" =>
        \A d \in date_set(df_single) :
            (d \in pivot_df_cleaned.index) <=> HasAllHours(df_single, d)

\* ---- task 2's claims ------------------------------------------------------

Available == Range(available_datasets_for_common_day)

\* C4: the common dates are exactly the dates that are members of every
\* input set, and every order of combining the input sets gives that set.
C4_CommonDatesAreTheIntersection ==
    list_of_date_sets /= <<>> =>
        LET sets == list_of_date_sets
            n == Len(sets)
            result == Range(common_dates)
        IN  /\ \A k \in 1..n : result \subseteq sets[k]
            /\ \A d \in UNION Range(sets) : (\A k \in 1..n : d \in sets[k]) => d \in result
            /\ \A p \in Permutations(1..n) : reduce([k \in 1..n |-> sets[p[k]]]) = result

\* Three date sets, the first a proper superset of the last, with a common
\* date and a date that is not common.
C4_Witness ==
    /\ Len(list_of_date_sets) >= 3
    /\ list_of_date_sets[3] \subseteq list_of_date_sets[1]
    /\ list_of_date_sets[3] /= list_of_date_sets[1]
    /\ common_dates /= <<>>
    /\ UNION Range(list_of_date_sets) /= Range(common_dates)

DatesWithAReading(df) == {d \in CmpDates : \E k \in DOMAIN df : df[k].date = d}

C9_ComparisonNeedsTwoDatasets ==
    (cmp_pc \in {"rendered", "stopped"}
        /\ (Len(all_datasets.keys) < 2 \/ Len(selected_hashes_for_comparison) < 2)) =>
            task2_output \in {"warning_need_two_datasets", "warning_no_common_date",
                              "info_no_data", "info_select_day_and_dataset",
                              "error_no_datasets"}

\* C10: for every selected common day and every non-empty selection, each
\* selected dataset has a reading on that day: comparison_data_list has one
\* entry per selected dataset, and the branch that reports no data for the
\* selected datasets and date is never taken.
C10_EverySelectedDatasetHasTheDay ==
    /\ task2_output /= "info_no_data"
    /\ (cmp_pc = "rendered" /\ selected_hashes_for_comparison /= <<>>) =>
          /\ Len(comparison_data_list) = Len(selected_hashes_for_comparison)
          /\ \A k \in DOMAIN comparison_data_list :
                /\ comparison_data_list[k].dataset_id = selected_hashes_for_comparison[k]
                /\ comparison_data_list[k].rows /= <<>>
                /\ \A j \in DOMAIN comparison_data_list[k].rows :
                      comparison_data_list[k].rows[j].date = selected_common_day

\* A chart of two or more selected datasets, not all of the loaded ones, on a
\* day that is not the only date of every selected dataset.
C10_Witness ==
    /\ cmp_pc = "rendered"
    /\ task2_output = "chart"
    /\ Len(selected_hashes_for_comparison) >= 2
    /\ Len(selected_hashes_for_comparison) < Len(all_datasets.keys)
    /\ \E h \in Range(selected_hashes_for_comparison) :
          date_set(all_datasets.df[h]) /= {selected_common_day}

====
